---- MODULE Spec2Model ----
(***************************************************************************)
(* The tool-proxy dispatch layer of src/server/proxy_server.py:            *)
(* initialize_servers (the startup loop over SERVERS), the two module      *)
(* level tables sessions and tool_mapping, and proxy_tool_call (the        *)
(* invocation router), together with the child processes as environment;   *)
(* load_server_config, the exits of the __main__ block and its closing of  *)
(* exit_stack; and MCPClient.process_query of src/client/common_client.py. *)
(* The message texts of the source are Chinese; the strings below are      *)
(* their ASCII renderings.                                                  *)
(***************************************************************************)
EXTENDS Naturals, Sequences, FiniteSets, TLC

VARIABLES
    SERVERS,        \* the loaded child specs (line 125), a sequence of records
    phase,          \* position of main(): "initialize_servers" or "serving"
    i,              \* the startup loop's position in SERVERS (1-based)
    step,           \* the await the startup loop is suspended at
    sessions,       \* server name -> session (the child it talks to), line 126
    tool_mapping,   \* tool name -> server name, line 127
    exit_stack,     \* contexts entered on the AsyncExitStack, line 48
    proc,           \* per child: OS process state
    hs,             \* per child: handshake state
    catalogue,      \* per child: the tool names of its list_tools answer
    calls,          \* per invocation of proxy_tool_call: its position and result
    inbox,          \* per child: the call_tool requests written to its channel
    CONFIG_FILE,    \* what the configuration source holds (line 53)
    log,            \* per child: the handshake steps the loop reported done
    exit_path,      \* how asyncio.run(main()) ended (lines 358-370)
    closed,         \* the contexts exit_stack.aclose() has left, in order
    runs,           \* how many times the close routine has been run
    client,         \* MCPClient.process_query: its position and what it did
    help_result,    \* what the last call of the help tool returned
    responses       \* the call_tool responses the children have written

vars == <<SERVERS, phase, i, step, sessions, tool_mapping, exit_stack,
          proc, hs, catalogue, calls, inbox,
          CONFIG_FILE, log, exit_path, closed, runs, client,
          help_result, responses>>

---------------------------------------------------------------------------
\* Bounds of the model.
MaxServers == 2
MaxCalls == 2

\* Values the inputs are drawn from.
NoName == "<no name>"
NoTool == "<no tool>"
Names == {NoName, "Server-1"}
Scripts == {"", "srv.py"}
Tools == {"t1", "t2"}
UnknownTool == "nonexistent"
ToolInputs == Tools \cup {UnknownTool, NoTool, ""}
ArgValues == {"hello"}

Children == 1..MaxServers
CallIds == 1..MaxCalls

\* server.get("name", f"Server-{i}") with i the 0-based enumerate index.
DefaultName(idx) ==
    CASE idx = 0 -> "Server-0"
      [] idx = 1 -> "Server-1"
      [] idx = 2 -> "Server-2"
      [] OTHER -> "Server-3"

ServerName(c) ==
    IF SERVERS[c].name = NoName THEN DefaultName(c - 1) ELSE SERVERS[c].name

\* An entry of the loaded list that is not a JSON object (a string, a number).
NotADict == [name |-> "<not a dict>", script |-> "<not a dict>"]

IsDict(server) == server # NotADict

ServerSpecs == [name : Names, script : Scripts] \cup {NotADict}

ServerLists == UNION {[1..n -> ServerSpecs] : n \in 0..MaxServers}

\* What the configuration source may hold: no file, text that is not JSON, a
\* JSON number, a JSON object, or a JSON list of entries.
ConfigSources ==
    {[kind |-> k, value |-> << >>] : k \in {"absent", "unparsable", "number"}}
    \cup {[kind |-> "object",
           value |-> <<[name |-> "Server-1", script |-> "srv.py"]>>]}
    \cup {[kind |-> "list", value |-> l] : l \in ServerLists}

empty_config == << >>

\* a loader without the isinstance test: a single object is taken as the list
load_server_config_no_list_test(config_file) ==
    IF config_file.kind \in {"absent", "unparsable", "number"}
    THEN empty_config
    ELSE config_file.value

\* load_server_config, lines 71-119: a missing file is created empty; a
\* JSONDecodeError, the TypeError of len() on a number and a value that is
\* not a list all give the empty list.
load_server_config(config_file) ==
    IF config_file.kind = "absent" THEN empty_config
    ELSE IF config_file.kind = "unparsable" THEN empty_config
    ELSE IF config_file.kind = "number" THEN empty_config
    ELSE IF config_file.kind # "list" THEN empty_config
    ELSE config_file.value

---------------------------------------------------------------------------
\* Child answers to call_tool.
Text(p) == [type |-> "text", text |-> p]
Image == [type |-> "image", text |-> ""]
NoResp == [kind |-> "none", content |-> <<>>]
RpcError == [kind |-> "error", content |-> <<>>]
Result(content) == [kind |-> "result", content |-> content]

\* What a child may answer to a request carrying args a.
AnswersTo(a) ==
    { Result(<<Text(a)>>),
      Result(<<Text(a), Text("more")>>),
      Result(<<>>),
      Result(<<Image>>),
      RpcError }

\* The texts proxy_tool_call returns: a fixed part and the values formatted
\* into it. A child's payload is returned as it is.
Msg(text, tool, names, detail) ==
    [text |-> text, tool |-> tool, names |-> names, detail |-> detail]
NoMsg == Msg("", "", {}, "")
Payload(p) == Msg(p, "", {}, "")
MissingNameText == Msg("error: missing tool name", "", {}, "")
\* the unknown-tool text without the list of known names
UnknownToolTextNoList(tool, names) ==
    Msg("unknown tool: {}. available tools: {}", tool, {}, "")
UnknownToolText(tool, names) ==
    Msg("unknown tool: {}. available tools: {}", tool, names, "")
NoSessionText(name) == Msg("server session does not exist: {}", "", {}, name)
TimeoutText(tool) == Msg("tool call timed out: {}", tool, {}, "")
FailedText(e) == Msg("tool call failed: {}", "", {}, e)

\* Exceptions the body of proxy_tool_call can meet (all subclasses of Exception).
Exceptions == {"IndexError", "AttributeError", "McpError", "BrokenResourceError"}

IdleCall ==
    [st |-> "idle", tool |-> NoTool, args |-> "", session |-> 0,
     resp |-> NoResp, branch |-> "", result |-> NoMsg]

\* What process_query sees of the completion text: whether it holds the
\* json fence, what json.loads makes of the fenced part, and the object's
\* "action", "tool" and "args" entries.
NoAction == "<no action>"
NoArgs == "<no args>"
PlainText == [fence |-> FALSE, json |-> "none",
              action |-> NoAction, tool |-> NoTool, args |-> NoArgs]
Malformed == [PlainText EXCEPT !.fence = TRUE, !.json = "malformed"]
JsonArray == [PlainText EXCEPT !.fence = TRUE, !.json = "array"]
JsonObjects ==
    [fence : {TRUE}, json : {"object"},
     action : {"call_tool", "answer", NoAction},
     tool : ToolInputs, args : ArgValues \cup {NoArgs}]
Completions == {PlainText, Malformed, JsonArray} \cup JsonObjects

\* What the proxy may answer to the client's call_tool.
ProxyAnswers == {Result(<<Text("reply")>>), Result(<<>>), RpcError}

IdleQuery ==
    [pc |-> "idle", content |-> PlainText, sent |-> << >>,
     kind |-> "", text |-> "", raised |-> FALSE]

---------------------------------------------------------------------------
Init ==
    /\ CONFIG_FILE \in ConfigSources
    /\ SERVERS = load_server_config(CONFIG_FILE)
    /\ phase = "initialize_servers"
    /\ i = 1
    /\ step = "loop"
    /\ sessions = << >>
    /\ tool_mapping = << >>
    /\ exit_stack = << >>
    /\ proc = [c \in Children |-> "none"]
    /\ hs = [c \in Children |-> "Pending"]
    /\ catalogue = [c \in Children |-> {}]
    /\ calls = [k \in CallIds |-> IdleCall]
    /\ inbox = [c \in Children |-> {}]
    /\ log = [c \in Children |-> << >>]
    /\ exit_path = ""
    /\ closed = << >>
    /\ runs = 0
    /\ client = IdleQuery
    /\ help_result = NoMsg
    /\ responses = {}

\* a registration that keeps the owner a name already has
RegisterToolsFirstWins(tm, cat, name) ==
    [t \in (DOMAIN tm) \cup cat |-> IF t \in DOMAIN tm THEN tm[t] ELSE name]

\* a registration that stops after the first tool of the answer
RegisterToolsPartial(tm, cat, name) ==
    LET first == IF cat = {} THEN {} ELSE {CHOOSE t \in cat : TRUE}
    IN [t \in (DOMAIN tm) \cup first |-> IF t \in first THEN name ELSE tm[t]]

\* tool_mapping[tool.name] = server_name for every tool of the answer.
RegisterTools(tm, cat, name) ==
    [t \in (DOMAIN tm) \cup cat |-> IF t \in cat THEN name ELSE tm[t]]

\* a loop that creates the session and never stores it
ForgetSession(ss, name, c) == ss

\* sessions[server_name] = session
PutSession(ss, name, c) ==
    [n \in (DOMAIN ss) \cup {name} |-> IF n = name THEN c ELSE ss[n]]

InLoop == phase = "initialize_servers" /\ step = "loop"

\* The loop is exhausted (or SERVERS is empty): initialize_servers returns and
\* main() goes on to run_proxy.
LoopDone ==
    /\ InLoop
    /\ i > Len(SERVERS)
    /\ phase' = "serving"
    /\ UNCHANGED <<help_result, responses,
                   CONFIG_FILE, log, exit_path, closed, runs, client,
                   SERVERS, i, step, sessions, tool_mapping, exit_stack,
                   proc, hs, catalogue, calls, inbox>>

\* server.get("name", ...) on an entry that is not a dict raises
\* AttributeError before the try of line 163: initialize_servers raises, the
\* except of main() (line 343) takes it and main() returns 1.
EntryRaises ==
    /\ InLoop
    /\ i <= Len(SERVERS)
    /\ ~IsDict(SERVERS[i])
    /\ phase' = "raised"
    /\ UNCHANGED <<help_result, responses,
                   CONFIG_FILE, log, exit_path, closed, runs, client,
                   SERVERS, i, step, sessions, tool_mapping, exit_stack,
                   proc, hs, catalogue, calls, inbox>>

\* if not script_path: continue
SkipNoScript ==
    /\ InLoop
    /\ i <= Len(SERVERS)
    /\ IsDict(SERVERS[i])
    /\ SERVERS[i].script = ""
    /\ hs' = [hs EXCEPT ![i] = "Skipped"]
    /\ i' = i + 1
    /\ log' = [log EXCEPT ![i] = @ \o <<"skip">>]
    /\ UNCHANGED <<help_result, responses,
                   CONFIG_FILE, exit_path, closed, runs, client,
                   SERVERS, phase, step, sessions, tool_mapping, exit_stack,
                   proc, catalogue, calls, inbox>>

\* a loop that starts the process although no candidate path exists
SkipNotFoundSpawns ==
    /\ InLoop
    /\ i <= Len(SERVERS)
    /\ IsDict(SERVERS[i])
    /\ SERVERS[i].script # ""
    /\ hs' = [hs EXCEPT ![i] = "Skipped"]
    /\ proc' = [proc EXCEPT ![i] = "running"]
    /\ i' = i + 1
    /\ log' = [log EXCEPT ![i] = @ \o <<"skip">>]
    /\ UNCHANGED <<help_result, responses,
                   CONFIG_FILE, exit_path, closed, runs, client,
                   SERVERS, phase, step, sessions, tool_mapping, exit_stack,
                   catalogue, calls, inbox>>

\* none of the candidate paths exists: continue
SkipNotFound ==
    /\ InLoop
    /\ i <= Len(SERVERS)
    /\ IsDict(SERVERS[i])
    /\ SERVERS[i].script # ""
    /\ hs' = [hs EXCEPT ![i] = "Skipped"]
    /\ i' = i + 1
    /\ log' = [log EXCEPT ![i] = @ \o <<"skip">>]
    /\ UNCHANGED <<help_result, responses,
                   CONFIG_FILE, exit_path, closed, runs, client,
                   SERVERS, phase, step, sessions, tool_mapping, exit_stack,
                   proc, catalogue, calls, inbox>>

\* a candidate path exists: run up to the first await, the transport's start
BeginTransport ==
    /\ InLoop
    /\ i <= Len(SERVERS)
    /\ IsDict(SERVERS[i])
    /\ SERVERS[i].script # ""
    /\ step' = "transport"
    /\ UNCHANGED <<help_result, responses,
                   CONFIG_FILE, log, exit_path, closed, runs, client,
                   SERVERS, phase, i, sessions, tool_mapping, exit_stack,
                   proc, hs, catalogue, calls, inbox>>

\* an initialize without a timeout: the loop stays at the await of a child
\* that does not answer
FailStepInitializeUnbounded(s) ==
    /\ s # "initialize"
    /\ phase = "initialize_servers"
    /\ step = s
    /\ hs' = [hs EXCEPT ![i] = "Failed"]
    /\ step' = "loop"
    /\ i' = i + 1
    /\ log' = [log EXCEPT ![i] = @ \o <<"failed">>]

\* a handler that reports the failed initialize and goes on to list_tools
\* instead of continuing with the next entry
FailStepGoesOn(s) ==
    /\ phase = "initialize_servers"
    /\ step = s
    /\ hs' = [hs EXCEPT ![i] = "Failed"]
    /\ step' = IF s = "initialize" THEN "list_tools" ELSE "loop"
    /\ i' = IF s = "initialize" THEN i ELSE i + 1
    /\ log' = [log EXCEPT ![i] = @ \o <<"failed">>]

\* except asyncio.TimeoutError / except Exception: continue
FailStep(s) ==
    /\ phase = "initialize_servers"
    /\ step = s
    /\ hs' = [hs EXCEPT ![i] = "Failed"]
    /\ step' = "loop"
    /\ i' = i + 1
    /\ log' = [log EXCEPT ![i] = @ \o <<"failed">>]

TransportOk ==
    /\ phase = "initialize_servers"
    /\ step = "transport"
    /\ proc' = [proc EXCEPT ![i] = "running"]
    /\ hs' = [hs EXCEPT ![i] = "Spawned"]
    /\ exit_stack' = Append(exit_stack, <<"stdio_client", i>>)
    /\ step' = "session"
    /\ log' = [log EXCEPT ![i] = @ \o <<"spawn">>]
    /\ UNCHANGED <<help_result, responses,
                   CONFIG_FILE, exit_path, closed, runs, client,
                   SERVERS, phase, i, sessions, tool_mapping, catalogue,
                   calls, inbox>>

TransportFail ==
    /\ FailStep("transport")
    /\ UNCHANGED <<help_result, responses,
                   CONFIG_FILE, exit_path, closed, runs, client,
                   SERVERS, phase, sessions, tool_mapping, exit_stack,
                   proc, catalogue, calls, inbox>>

SessionOk ==
    /\ phase = "initialize_servers"
    /\ step = "session"
    /\ exit_stack' = Append(exit_stack, <<"ClientSession", i>>)
    /\ hs' = [hs EXCEPT ![i] = "Handshaking"]
    /\ step' = "initialize"
    /\ log' = [log EXCEPT ![i] = @ \o <<"session">>]
    /\ UNCHANGED <<help_result, responses,
                   CONFIG_FILE, exit_path, closed, runs, client,
                   SERVERS, phase, i, sessions, tool_mapping, proc,
                   catalogue, calls, inbox>>

SessionFail ==
    /\ FailStep("session")
    /\ UNCHANGED <<help_result, responses,
                   CONFIG_FILE, exit_path, closed, runs, client,
                   SERVERS, phase, sessions, tool_mapping, exit_stack,
                   proc, catalogue, calls, inbox>>

InitializeOk ==
    /\ phase = "initialize_servers"
    /\ step = "initialize"
    /\ sessions' = PutSession(sessions, ServerName(i), i)
    /\ hs' = [hs EXCEPT ![i] = "ListingTools"]
    /\ step' = "list_tools"
    /\ log' = [log EXCEPT ![i] = @ \o <<"initialize">>]
    /\ UNCHANGED <<help_result, responses,
                   CONFIG_FILE, exit_path, closed, runs, client,
                   SERVERS, phase, i, tool_mapping, exit_stack, proc,
                   catalogue, calls, inbox>>

InitializeFail ==
    /\ FailStep("initialize")
    /\ UNCHANGED <<help_result, responses,
                   CONFIG_FILE, exit_path, closed, runs, client,
                   SERVERS, phase, sessions, tool_mapping, exit_stack,
                   proc, catalogue, calls, inbox>>

ListToolsOk ==
    /\ phase = "initialize_servers"
    /\ step = "list_tools"
    /\ \E cat \in SUBSET Tools :
         /\ catalogue' = [catalogue EXCEPT ![i] = cat]
         /\ tool_mapping' = RegisterTools(tool_mapping, cat, ServerName(i))
    /\ hs' = [hs EXCEPT ![i] = "Ready"]
    /\ step' = "loop"
    /\ i' = i + 1
    /\ log' = [log EXCEPT ![i] = @ \o <<"list_tools", "register">>]
    /\ UNCHANGED <<help_result, responses,
                   CONFIG_FILE, exit_path, closed, runs, client,
                   SERVERS, phase, sessions, exit_stack, proc, calls, inbox>>

ListToolsFail ==
    /\ FailStep("list_tools")
    /\ UNCHANGED <<help_result, responses,
                   CONFIG_FILE, exit_path, closed, runs, client,
                   SERVERS, phase, sessions, tool_mapping, exit_stack,
                   proc, catalogue, calls, inbox>>

Startup ==
    \/ LoopDone
    \/ EntryRaises
    \/ SkipNoScript
    \/ SkipNotFound
    \/ BeginTransport
    \/ TransportOk
    \/ TransportFail
    \/ SessionOk
    \/ SessionFail
    \/ InitializeOk
    \/ InitializeFail
    \/ ListToolsOk
    \/ ListToolsFail

---------------------------------------------------------------------------
\* proxy_tool_call, lines 260-299.

Returned(call, branch, msg) ==
    [call EXCEPT !.st = "returned", !.branch = branch, !.result = msg]

\* an outer handler that takes protocol errors only
CaughtOnlyMcpError(e) == e = "McpError"

\* except Exception as e (line 297): which exceptions the outer handler takes.
CaughtByOuter(e) == e \in Exceptions

\* An exception raised inside the outer try.
Raised(call, e) ==
    IF CaughtByOuter(e)
    THEN Returned(call, "failed", FailedText(e))
    ELSE [call EXCEPT !.st = "raised", !.branch = "uncaught"]

\* server_name = tool_mapping[tool_name]; session = sessions[server_name]
Resolve(tool) == sessions[tool_mapping[tool]]

\* the text of the last content item instead of the first
ResponseTextLast(content) == content[Len(content)].text

\* result.content[0].text
ResponseText(content) == content[1].text

\* The request of call k as written to a child's channel.
Request(k, tool, args) == [id |-> k, tool |-> tool, args |-> args]

\* a broker that accepts requests while initialize_servers is still running
InvocableDuringStartup(k) ==
    /\ phase \in {"initialize_servers", "serving"}
    /\ calls[k].st = "idle"
    /\ k > 1 => calls[k - 1].st # "idle"

\* run_proxy is awaited after initialize_servers has returned (lines 323-340):
\* requests are taken once the loop is over. Calls are numbered in the order
\* they arrive.
Invocable(k) ==
    /\ phase = "serving"
    /\ calls[k].st = "idle"
    /\ k > 1 => calls[k - 1].st # "idle"

\* a body that looks the name up in the registry before it tests the name
DispatchRegistryFirst(call, k, tool, args) ==
    LET c0 == [call EXCEPT !.tool = tool, !.args = args] IN
    IF tool \notin DOMAIN tool_mapping
    THEN [call |-> Returned(c0, "unknown",
                            UnknownToolText(tool, DOMAIN tool_mapping)),
          sent |-> {}]
    ELSE IF tool \in {NoTool, ""}
    THEN [call |-> Returned(c0, "missing_name", MissingNameText), sent |-> {}]
    ELSE IF tool_mapping[tool] \notin DOMAIN sessions
    THEN [call |-> Returned(c0, "no_session", NoSessionText(tool_mapping[tool])),
          sent |-> {}]
    ELSE [call |-> [c0 EXCEPT !.st = "awaiting", !.session = Resolve(tool)],
          sent |-> {<<Resolve(tool), Request(k, tool, args)>>}]

\* The body of proxy_tool_call up to its first await (lines 263-286): the
\* call after it, and the requests it wrote to children.
Dispatch(call, k, tool, args) ==
    LET c0 == [call EXCEPT !.tool = tool, !.args = args] IN
    IF tool \in {NoTool, ""}
    THEN [call |-> Returned(c0, "missing_name", MissingNameText), sent |-> {}]
    ELSE IF tool \notin DOMAIN tool_mapping
    THEN [call |-> Returned(c0, "unknown",
                            UnknownToolText(tool, DOMAIN tool_mapping)),
          sent |-> {}]
    ELSE IF tool_mapping[tool] \notin DOMAIN sessions
    THEN [call |-> Returned(c0, "no_session", NoSessionText(tool_mapping[tool])),
          sent |-> {}]
    ELSE [call |-> [c0 EXCEPT !.st = "awaiting", !.session = Resolve(tool)],
          sent |-> {<<Resolve(tool), Request(k, tool, args)>>}]

\* A request {tool, args} arrives and proxy_tool_call runs to its first await
\* or to an early return.
Invoke(k) ==
    /\ Invocable(k)
    /\ \E tool \in ToolInputs, args \in ArgValues :
         LET d == Dispatch(calls[k], k, tool, args) IN
           /\ calls' = [calls EXCEPT ![k] = d.call]
           /\ inbox' = [c \in Children |->
                          inbox[c] \cup {m[2] : m \in {x \in d.sent : x[1] = c}}]
    /\ UNCHANGED <<help_result, responses,
                   CONFIG_FILE, log, exit_path, closed, runs, client,
                   SERVERS, phase, i, step, sessions, tool_mapping,
                   exit_stack, proc, hs, catalogue>>

Awaiting(k) ==
    /\ phase = "serving"
    /\ calls[k].st = "awaiting"

\* a session that hands a response to the oldest call waiting on the same
\* child, whatever request the response answers
RecipientOldest(cs, id) ==
    LET waiting == {k \in CallIds : /\ cs[k].st = "awaiting"
                                    /\ cs[k].resp = NoResp
                                    /\ cs[k].session = cs[id].session}
    IN IF waiting = {} THEN 0
       ELSE CHOOSE k \in waiting : \A j \in waiting : k <= j

\* session.call_tool (line 287) returns the response that carries the id of
\* its own request. A response whose request is no longer awaited, because
\* wait_for has cancelled the call, is handed to nobody (0).
Recipient(cs, id) ==
    IF cs[id].st = "awaiting" /\ cs[id].resp = NoResp THEN id ELSE 0

\* The request of call k is at a running child and has no response yet; the
\* call still waits for it or has given it up by its timeout.
Answerable(k) ==
    /\ phase = "serving"
    /\ calls[k].st = "awaiting" \/ calls[k].branch = "timeout"
    /\ \A x \in responses : x.id # k
    /\ proc[calls[k].session] = "running"

\* The child answers the request of call k.
ChildAnswers(k) ==
    /\ Answerable(k)
    /\ \E r \in AnswersTo(calls[k].args) :
         LET to == Recipient(calls, k) IN
           /\ calls' = IF to = 0 THEN calls ELSE [calls EXCEPT ![to].resp = r]
           /\ responses' = responses \cup {[id |-> k, to |-> to, resp |-> r]}
    /\ UNCHANGED <<help_result,
                   CONFIG_FILE, log, exit_path, closed, runs, client,
                   SERVERS, phase, i, step, sessions, tool_mapping,
                   exit_stack, proc, hs, catalogue, inbox>>

\* What the call does with the answer r once it has arrived.
OnResponse(call, r) ==
    IF r.kind = "error" THEN Raised(call, "McpError")
    ELSE IF r.content = <<>> THEN Raised(call, "IndexError")
    ELSE IF Head(r.content).type # "text" THEN Raised(call, "AttributeError")
    ELSE Returned(call, "ok", Payload(ResponseText(r.content)))

\* a dispatcher that hands out answers in the order the calls were made
CanResumeInOrder(k) ==
    /\ Awaiting(k)
    /\ calls[k].resp # NoResp
    /\ \A j \in CallIds : j < k => calls[j].st # "awaiting"

\* The answer has arrived: the awaiting call resumes (lines 290-292).
CanResume(k) ==
    /\ Awaiting(k)
    /\ calls[k].resp # NoResp

Resume(k) ==
    /\ CanResume(k)
    /\ calls' = [calls EXCEPT ![k] = OnResponse(@, @.resp)]
    /\ UNCHANGED <<help_result, responses,
                   CONFIG_FILE, log, exit_path, closed, runs, client,
                   SERVERS, phase, i, step, sessions, tool_mapping,
                   exit_stack, proc, hs, catalogue, inbox>>

\* a timeout handler that tears the child down: process terminated, session
\* dropped
OnTimeoutClose(k) ==
    /\ calls' = [calls EXCEPT ![k] = Returned(@, "timeout", TimeoutText(@.tool))]
    /\ proc' = [proc EXCEPT ![calls[k].session] = "terminated"]
    /\ sessions' = [n \in {m \in DOMAIN sessions : sessions[m] # calls[k].session}
                       |-> sessions[n]]
    /\ UNCHANGED <<tool_mapping, inbox>>

\* an await without a timeout: the handler is never entered
OnTimeoutNever(k) ==
    /\ FALSE
    /\ UNCHANGED <<calls, sessions, tool_mapping, proc, inbox>>

\* a timeout handler that takes the tool that timed out off the registry
OnTimeoutUnregister(k) ==
    /\ calls' = [calls EXCEPT ![k] = Returned(@, "timeout", TimeoutText(@.tool))]
    /\ tool_mapping' = [n \in DOMAIN tool_mapping \ {calls[k].tool}
                            |-> tool_mapping[n]]
    /\ UNCHANGED <<sessions, proc, inbox>>

\* asyncio.wait_for(..., timeout=30) expires: except asyncio.TimeoutError.
OnTimeout(k) ==
    /\ calls' = [calls EXCEPT ![k] = Returned(@, "timeout", TimeoutText(@.tool))]
    /\ UNCHANGED <<sessions, tool_mapping, proc, inbox>>

TimeoutExpires(k) ==
    /\ Awaiting(k)
    /\ calls[k].resp = NoResp
    /\ OnTimeout(k)
    /\ UNCHANGED <<help_result, responses,
                   CONFIG_FILE, log, exit_path, closed, runs, client,
                   SERVERS, phase, i, step, exit_stack, hs, catalogue>>

\* The session's channel is closed under the awaiting call: call_tool raises.
ChannelClosed(k) ==
    /\ Awaiting(k)
    /\ calls[k].resp = NoResp
    /\ proc[calls[k].session] = "exited"
    /\ calls' = [calls EXCEPT ![k] = Raised(@, "BrokenResourceError")]
    /\ UNCHANGED <<help_result, responses,
                   CONFIG_FILE, log, exit_path, closed, runs, client,
                   SERVERS, phase, i, step, sessions, tool_mapping,
                   exit_stack, proc, hs, catalogue, inbox>>

\* A child process terminates by itself.
ChildExits(c) ==
    /\ phase = "serving"
    /\ proc[c] = "running"
    /\ proc' = [proc EXCEPT ![c] = "exited"]
    /\ UNCHANGED <<help_result, responses,
                   CONFIG_FILE, log, exit_path, closed, runs, client,
                   SERVERS, phase, i, step, sessions, tool_mapping,
                   exit_stack, hs, catalogue, calls, inbox>>

\* The texts of the help tool.
NoToolsText ==
    Msg("no tools available. check the configuration file and the server scripts.",
        "", {}, "")

\* a help that lists the values of tool_mapping, the server names
help_lists_servers(tm) ==
    IF DOMAIN tm = {} THEN NoToolsText
    ELSE Msg("available tools: {}", "", {tm[n] : n \in DOMAIN tm}, "")

\* help(), lines 130-137: the fixed text for an empty tool_mapping, else the
\* joined keys of tool_mapping.
help(tm) ==
    IF DOMAIN tm = {} THEN NoToolsText
    ELSE Msg("available tools: {}", "", DOMAIN tm, "")

\* The help tool is called.
Help ==
    /\ phase = "serving"
    /\ help_result' = help(tool_mapping)
    /\ UNCHANGED <<responses, CONFIG_FILE, log, exit_path, closed, runs,
                   client, SERVERS, phase, i, step, sessions, tool_mapping,
                   exit_stack, proc, hs, catalogue, calls, inbox>>

\* The steps of the calls of proxy_tool_call.
ToolCalls ==
    \E k \in CallIds :
        \/ Invoke(k)
        \/ ChildAnswers(k)
        \/ Resume(k)
        \/ TimeoutExpires(k)
        \/ ChannelClosed(k)

Invocation == Help \/ ToolCalls

Environment == \E c \in Children : ChildExits(c)

Next == Startup \/ Invocation \/ Environment

---------------------------------------------------------------------------
\* The __main__ block, lines 349-383: the ways asyncio.run(main()) ends and
\* the finally clause, which closes exit_stack.

ExitPaths == {"interrupt", "normal", "startup_exception", "unhandled"}

\* The ways out that are open at a position of main().
CanExit(path) ==
    CASE path = "interrupt" -> phase \in {"initialize_servers", "serving"}
      [] path = "normal" -> phase = "serving"
      [] path = "startup_exception" -> phase = "raised"
      [] path = "unhandled" -> phase \in {"initialize_servers", "serving"}
      [] OTHER -> FALSE

\* the closing placed after the try statement instead of in its finally:
\* the SystemExit of sys.exit(exit_code) passes it by
AfterMainNoFinally(path) ==
    IF path = "startup_exception" THEN "exited" ELSE "shutdown"

\* finally: (line 372) is entered on every way out of the try, also on the
\* SystemExit of sys.exit(exit_code) that no except clause takes.
AfterMain(path) == "shutdown"

\* asyncio.run(main()) ends by the way path and control reaches the finally.
Exit(path) ==
    /\ exit_path = ""
    /\ CanExit(path)
    /\ exit_path' = path
    /\ phase' = AfterMain(path)
    /\ runs' = IF AfterMain(path) = "shutdown" THEN 1 ELSE 0
    /\ UNCHANGED <<help_result, responses,
                   CONFIG_FILE, log, closed, client,
                   SERVERS, i, step, sessions, tool_mapping, exit_stack,
                   proc, hs, catalogue, calls, inbox>>

\* Bound on the contexts left in one lifetime, so that a loop that never
\* empties the stack stays finite.
MaxCloses == 2 * MaxServers + 1

\* a loop that leaves the context on the stack
KeepContext(stack) == stack

\* AsyncExitStack pops each callback before it runs it.
PopContext(stack) == SubSeq(stack, 1, Len(stack) - 1)

\* a fail-fast loop: nothing more is closed once a context has raised
CanCloseFailFast ==
    /\ phase = "shutdown"
    /\ exit_stack # << >>
    /\ \A n \in 1..Len(closed) : closed[n].outcome # "raised"

\* aclose() goes on while callbacks are left; an exception of one callback
\* is kept and handed to the next, never ends the loop.
CanClose ==
    /\ phase = "shutdown"
    /\ exit_stack # << >>

\* One turn of the loop of aclose(): the last context entered is left. Its
\* __aexit__ either completes or raises; the stdio_client context that
\* completes has terminated its child process.
CloseNext ==
    /\ CanClose
    /\ Len(closed) < MaxCloses
    /\ LET ctx == exit_stack[Len(exit_stack)] IN
         \E outcome \in {"closed", "raised"} :
           /\ closed' = Append(closed, [kind |-> ctx[1], child |-> ctx[2],
                                        outcome |-> outcome, run |-> runs])
           /\ proc' = IF ctx[1] = "stdio_client" /\ outcome = "closed"
                      THEN [proc EXCEPT ![ctx[2]] = "terminated"]
                      ELSE proc
    /\ exit_stack' = PopContext(exit_stack)
    /\ UNCHANGED <<help_result, responses,
                   CONFIG_FILE, log, exit_path, runs, client,
                   SERVERS, phase, i, step, sessions, tool_mapping,
                   hs, catalogue, calls, inbox>>

\* aclose() is over; what it re-raised is taken by the except of line 380.
ShutdownDone ==
    /\ phase = "shutdown"
    /\ ~CanClose
    /\ phase' = "exited"
    /\ UNCHANGED <<help_result, responses,
                   CONFIG_FILE, log, exit_path, closed, runs, client,
                   SERVERS, i, step, sessions, tool_mapping, exit_stack,
                   proc, hs, catalogue, calls, inbox>>

\* Bound on the runs of the close routine.
MaxRuns == 2

\* exit_stack.aclose() is run once more on the stack it has emptied.
CloseAgain ==
    /\ phase = "exited"
    /\ runs < MaxRuns
    /\ runs' = runs + 1
    /\ phase' = "shutdown"
    /\ UNCHANGED <<help_result, responses,
                   CONFIG_FILE, log, exit_path, closed, client,
                   SERVERS, i, step, sessions, tool_mapping, exit_stack,
                   proc, hs, catalogue, calls, inbox>>

Shutdown ==
    \/ \E path \in ExitPaths : Exit(path)
    \/ CloseNext
    \/ ShutdownDone
    \/ CloseAgain

\* Startup and the way out of the broker.
SpecShutdown == Init /\ [][Startup \/ Shutdown]_vars

---------------------------------------------------------------------------
\* MCPClient.process_query, src/client/common_client.py lines 184-231, from
\* the completion text on.

Sent(q, tool, args) ==
    [q EXCEPT !.pc = "awaiting",
              !.sent = Append(@, [name |-> "proxy_tool_call",
                                  params |-> [tool |-> tool, args |-> args]])]

Replies(q, kind, text) == [q EXCEPT !.pc = "returned", !.kind = kind, !.text = text]

\* Lines 187-222: the fence test, json.loads (JSONDecodeError returns the
\* content), tool_data.get on a value that is not a dict (AttributeError,
\* taken by the except of line 224), the action test, the tool name test.
Extract(q, content) ==
    IF ~content.fence THEN Replies(q, "content", "completion")
    ELSE IF content.json = "malformed" THEN Replies(q, "content", "completion")
    ELSE IF content.json # "object"
    THEN Replies(q, "api_error", "AttributeError")
    ELSE IF content.action = "call_tool"
    THEN IF content.tool \in {NoTool, ""}
         THEN Replies(q, "missing_tool", "tool name missing")
         ELSE Sent(q, content.tool,
                   IF content.args = NoArgs THEN "{}" ELSE content.args)
    ELSE Replies(q, "content", "completion")

\* The completion service answers with status 200 and a content text.
Complete ==
    /\ client.pc = "idle"
    /\ \E content \in Completions :
         client' = [client EXCEPT !.pc = "parse", !.content = content]
    /\ UNCHANGED <<help_result, responses,
                   CONFIG_FILE, log, exit_path, closed, runs,
                   SERVERS, phase, i, step, sessions, tool_mapping, exit_stack,
                   proc, hs, catalogue, calls, inbox>>

\* process_query runs from the content to its return or to the await of
\* session.call_tool.
ExtractDirective ==
    /\ client.pc = "parse"
    /\ client' = Extract(client, client.content)
    /\ UNCHANGED <<help_result, responses,
                   CONFIG_FILE, log, exit_path, closed, runs,
                   SERVERS, phase, i, step, sessions, tool_mapping, exit_stack,
                   proc, hs, catalogue, calls, inbox>>

\* Lines 208-216: the proxy's answer is unwrapped, any exception of the call
\* or of the unwrapping becomes the failure text.
ProxyReplies ==
    /\ client.pc = "awaiting"
    /\ \E r \in ProxyAnswers :
         client' = IF r.kind = "result" /\ r.content # << >>
                   THEN Replies(client, "tool_result", ResponseText(r.content))
                   ELSE Replies(client, "tool_failed", "tool call failed")
    /\ UNCHANGED <<help_result, responses,
                   CONFIG_FILE, log, exit_path, closed, runs,
                   SERVERS, phase, i, step, sessions, tool_mapping, exit_stack,
                   proc, hs, catalogue, calls, inbox>>

ProcessQuery == Complete \/ ExtractDirective \/ ProxyReplies

\* One query of the client.
SpecClient == Init /\ [][ProcessQuery]_vars

Spec == Init /\ [][Next]_vars

\* Every await of proxy_tool_call is bounded by asyncio.wait_for(timeout=30)
\* and a call whose answer has arrived is resumed by the event loop. The
\* code of initialize_servers between two awaits runs on, and each of its
\* four awaits is bounded by asyncio.wait_for(timeout=10). The help tool
\* reads the registry and writes nothing a call or the loop reads, so the
\* steps are those of the loop, the calls and the children.
FairSpec ==
    /\ Init
    /\ [][Startup \/ ToolCalls \/ Environment]_vars
    /\ \A k \in CallIds : WF_vars(TimeoutExpires(k)) /\ WF_vars(Resume(k))
    /\ WF_vars(LoopDone \/ EntryRaises \/ SkipNoScript \/ SkipNotFound
                \/ BeginTransport)
    /\ WF_vars(TransportFail) /\ WF_vars(SessionFail)
    /\ WF_vars(InitializeFail) /\ WF_vars(ListToolsFail)

\* The startup loop alone, before the broker serves.
SpecStartup == Init /\ [][Startup]_vars

---------------------------------------------------------------------------
\* Vocabulary of the properties.

\* The requests of call k in the channel of child c.
SentTo(c, k) == {m \in inbox[c] : m.id = k}

\* The children whose registration loop wrote tool name n.
Registrants(n) == {c \in Children : hs[c] = "Ready" /\ n \in catalogue[c]}

Range(f) == {f[x] : x \in DOMAIN f}

\* The orders in which n entries can stand in the list.
Orders(n) ==
    {p \in [1..n -> 1..n] : \A a, b \in 1..n : a # b => p[a] # p[b]}

\* server.get("name", f"Server-{i}") for entry c standing at position pos.
NameAt(c, pos) ==
    IF SERVERS[c].name = NoName THEN DefaultName(pos - 1) ELSE SERVERS[c].name

\* The loop of initialize_servers over the entries in the order p, from
\* position k on, every child doing what it did (log, catalogue): the tables
\* the loop ends with.
RECURSIVE RunLoop(_, _, _, _, _)
RunLoop(p, n, k, ss, tm) ==
    IF k > n THEN [sessions |-> ss, tool_mapping |-> tm]
    ELSE LET c == p[k]
             ss1 == IF "initialize" \in Range(log[c])
                    THEN PutSession(ss, NameAt(c, k), c) ELSE ss
             tm1 == IF "register" \in Range(log[c])
                    THEN RegisterTools(tm, catalogue[c], NameAt(c, k)) ELSE tm
         IN RunLoop(p, n, k + 1, ss1, tm1)

\* tool name -> the child a call of it is sent to
Owners(tables) ==
    [n \in DOMAIN tables.tool_mapping |->
        tables.sessions[tables.tool_mapping[n]]]

\* The contexts the startup loop entered on exit_stack for child c.
Entered(c) ==
    {<<"stdio_client", c>> : x \in {y \in Range(log[c]) : y = "spawn"}}
    \cup {<<"ClientSession", c>> : x \in {y \in Range(log[c]) : y = "session"}}

\* The contexts aclose() has called __aexit__ on.
Attempted == {<<closed[n].kind, closed[n].child>> : n \in 1..Len(closed)}

\* The steps of one child's handshake, in the order of the code.
HandshakeSteps == <<"spawn", "session", "initialize", "list_tools", "register">>

IsPrefix(a, b) == Len(a) <= Len(b) /\ a = SubSeq(b, 1, Len(a))

\* The steps child c has completed, in the order it completed them.
Completed(c) == SelectSeq(log[c], LAMBDA e : e \notin {"failed", "skip"})

Min(S) == CHOOSE x \in S : \A y \in S : x <= y
Max(S) == CHOOSE x \in S : \A y \in S : x >= y

\* Ready once the handshake is complete, Terminated once the process is gone.
Status(c) == IF proc[c] \in {"exited", "terminated"} THEN "Terminated" ELSE hs[c]

---------------------------------------------------------------------------
\* C1 (routing): every invocation of a tool name n of the registry puts
\* exactly one call_tool(n, a) request into the channel of a child that
\* advertised n in its list_tools answer, and nothing into any other channel.
C1_Routing ==
    \A k \in CallIds :
        (calls[k].st # "idle" /\ calls[k].tool \in DOMAIN tool_mapping) =>
            \E c \in Children :
                /\ calls[k].tool \in catalogue[c]
                /\ SentTo(c, k) = {Request(k, calls[k].tool, calls[k].args)}
                /\ \A d \in Children \ {c} : SentTo(d, k) = {}

C3_UnknownOperation ==
    \A k \in CallIds :
        (/\ calls[k].st # "idle"
         /\ calls[k].tool \notin {NoTool, ""}
         /\ calls[k].tool \notin DOMAIN tool_mapping) =>
            /\ calls[k].st = "returned"
            /\ calls[k].branch = "unknown"
            /\ calls[k].result.text = "unknown tool: {}. available tools: {}"
            /\ calls[k].result.tool = calls[k].tool
            /\ calls[k].result.names = DOMAIN tool_mapping
            /\ \A c \in Children : SentTo(c, k) = {}

\* An unknown tool was requested while the registry holds names.
C3_Witness ==
    \E k \in CallIds :
        /\ calls[k].branch = "unknown"
        /\ calls[k].tool = UnknownTool
        /\ DOMAIN tool_mapping = Tools

\* C4 (startup failure isolation): once initialize_servers has completed, no
\* registered tool is routed to a child that failed a handshake step, and
\* every tool of every child that completed its handshake is registered.
C4_StartupFailureIsolation ==
    phase = "serving" =>
        \A c \in 1..Len(SERVERS) :
            /\ hs[c] = "Failed" =>
                   \A n \in DOMAIN tool_mapping : Resolve(n) # c
            /\ hs[c] = "Ready" => catalogue[c] \subseteq DOMAIN tool_mapping

\* C5 (invocation timeout): the step in which an awaiting call times out
\* returns the timeout failure naming the tool and leaves the child process,
\* the session table and the registry as they were; a later invocation of a
\* tool of that child is forwarded to the same child.
C5_InvocationTimeout ==
    [][ /\ \A k \in CallIds :
             (calls[k].st = "awaiting" /\ calls'[k].branch = "timeout") =>
                 /\ calls'[k].st = "returned"
                 /\ calls'[k].result.text = "tool call timed out: {}"
                 /\ calls'[k].result.tool = calls[k].tool
                 /\ proc' = proc
                 /\ sessions' = sessions
                 /\ tool_mapping' = tool_mapping
        /\ \A k1, k2 \in CallIds :
             (/\ calls[k1].branch = "timeout"
              /\ calls[k2].st = "idle" /\ calls'[k2].st # "idle"
              /\ calls'[k2].tool \in DOMAIN tool_mapping
              /\ tool_mapping[calls'[k2].tool] = tool_mapping[calls[k1].tool]) =>
                 /\ calls'[k2].st = "awaiting"
                 /\ calls'[k2].session = calls[k1].session
                 /\ Request(k2, calls'[k2].tool, calls'[k2].args)
                        \in inbox'[calls[k1].session]
      ]_vars

\* A call has timed out on a running child and a later call is forwarded to
\* the same child.
C5_Witness ==
    /\ calls[1].branch = "timeout"
    /\ calls[2].st = "awaiting"
    /\ calls[2].session = calls[1].session
    /\ proc[calls[1].session] = "running"

\* C6 (registry invariant): in every state, every name of the registry is
\* routed to a child whose status is Ready; the names of a child that is no
\* longer Ready are not left in the registry.
C6_RegistryInvariant ==
    \A n \in DOMAIN tool_mapping :
        /\ tool_mapping[n] \in DOMAIN sessions
        /\ Status(Resolve(n)) = "Ready"

C8_TotalDispatcher ==
    \A k \in CallIds :
        /\ calls[k].st \in {"idle", "awaiting", "returned"}
        /\ calls[k].st = "returned" =>
              /\ calls[k].branch \in {"missing_name", "unknown", "no_session",
                                      "ok", "timeout", "failed"}
              /\ calls[k].result # NoMsg

\* Calls have ended on an empty content list and on a closed channel.
C8_Witness ==
    /\ calls[1].branch = "failed" /\ calls[1].result.detail = "IndexError"
    /\ calls[2].branch = "failed" /\ calls[2].result.detail = "BrokenResourceError"

\* C9 (verbatim payload): when the child's answer carries a text payload p as
\* its first content item, the invocation returns exactly p and nothing else.
C9_VerbatimPayload ==
    \A k \in CallIds :
        (/\ calls[k].st = "returned"
         /\ calls[k].resp.kind = "result"
         /\ calls[k].resp.content # <<>>
         /\ calls[k].resp.content[1].type = "text") =>
            /\ calls[k].branch = "ok"
            /\ calls[k].result =
                   Msg(calls[k].resp.content[1].text, "", {}, "")

\* An echoing child answered {x: "hello"} with "hello" followed by a second
\* content item and the invocation returned "hello".
C9_Witness ==
    \E k \in CallIds :
        /\ calls[k].branch = "ok"
        /\ calls[k].args = "hello"
        /\ Len(calls[k].resp.content) = 2
        /\ calls[k].result.text = "hello"

C11_ConcurrentStartup ==
    phase = "initialize_servers" =>
        \A c, d \in 1..Len(SERVERS) :
            (c # d /\ i = c /\ step # "loop"
             /\ IsDict(SERVERS[d]) /\ SERVERS[d].script # "") =>
                log[d] # << >>

\* C12 (order independence of startup): when initialize_servers has
\* returned, the registry (tool name -> owning child) is the one the loop
\* ends with for every permutation of the list, the children behaving the
\* same.
C12_OrderIndependence ==
    phase = "serving" =>
        \A p \in Orders(Len(SERVERS)) :
            Owners(RunLoop(p, Len(SERVERS), 1, << >>, << >>))
                = Owners([sessions |-> sessions, tool_mapping |-> tool_mapping])

\* C14 (the orchestrator never raises): for every loaded list, entries of
\* unexpected shape included, initialize_servers never ends by raising; it
\* returns and the broker goes on to serve.
C14_NeverRaises == phase # "raised"

\* C13 (no operation blocks indefinitely): every await of the broker is
\* bounded by a timeout, so initialize_servers always comes to an end and
\* every forwarded proxy_tool_call eventually returns, whatever the children
\* do.
C13_NoIndefiniteBlocking ==
    /\ <>(phase # "initialize_servers")
    /\ \A k \in CallIds :
          (calls[k].st = "awaiting") ~> (calls[k].st = "returned")

\* A child has run into a handshake timeout, startup has ended all the same,
\* and a call to a child that never answered has returned by its timeout.
C13_Witness ==
    /\ phase = "serving"
    /\ \E c \in Children : hs[c] = "Failed"
    /\ \E k \in CallIds :
          /\ calls[k].branch = "timeout"
          /\ calls[k].resp = NoResp
          /\ proc[calls[k].session] = "running"

\* The configuration source gave no list and nothing was started.
NothingStarted ==
    /\ SERVERS = << >>
    /\ \A c \in Children : proc[c] = "none" /\ log[c] = << >>
    /\ exit_stack = << >>
    /\ phase \in {"initialize_servers", "serving"}
    /\ phase = "initialize_servers" => ENABLED LoopDone

\* C15 as claimed (empty start is servable): when the configuration source
\* is absent, unparsable or not a list, the child list is empty, no child is
\* spawned, the broker goes on to serve, and every proxy_tool_call returns
\* the unknown-tool failure with an empty list of known names.
C15_EmptyStartAllUnknown ==
    CONFIG_FILE.kind # "list" =>
        /\ NothingStarted
        /\ \A k \in CallIds :
              calls[k].st # "idle" =>
                  /\ calls[k].st = "returned"
                  /\ calls[k].branch = "unknown"
                  /\ calls[k].result = UnknownToolText(calls[k].tool, {})

\* C15 as amended: when the configuration source is absent, unparsable or
\* not a list, the child list is empty, no child is spawned, the broker goes
\* on to serve, and every proxy_tool_call that names a tool returns the
\* unknown-tool failure with an empty list of known names; a call without a
\* tool name returns the missing-tool-name failure.
C15_EmptyStart ==
    CONFIG_FILE.kind # "list" =>
        /\ NothingStarted
        /\ \A k \in CallIds :
              calls[k].st # "idle" =>
                  /\ calls[k].st = "returned"
                  /\ \A c \in Children : SentTo(c, k) = {}
                  /\ IF calls[k].tool \in {NoTool, ""}
                     THEN /\ calls[k].branch = "missing_name"
                          /\ calls[k].result = MissingNameText
                     ELSE /\ calls[k].branch = "unknown"
                          /\ calls[k].result = UnknownToolText(calls[k].tool, {})

\* The configuration file holds a JSON object instead of a list; the broker
\* serves, a call of t1 was answered with the unknown-tool failure and a call
\* without a tool name with the missing-name failure.
C15_Witness ==
    /\ CONFIG_FILE.kind = "object"
    /\ phase = "serving"
    /\ calls[1].tool = "t1" /\ calls[1].branch = "unknown"
    /\ calls[1].result.names = {}
    /\ calls[2].tool = NoTool /\ calls[2].branch = "missing_name"

\* C16 (shutdown always happens): whichever way the broker has ended
\* (interrupt, normal end of serving, startup exception, unhandled
\* exception), the close routine has run, and close was requested for the
\* process context of every child that was spawned, whether the child ended
\* Ready or failed a later handshake step.
C16_ShutdownAlways ==
    /\ exit_path # "" => phase \in {"shutdown", "exited"}
    /\ phase = "exited" =>
          /\ exit_path \in ExitPaths
          /\ runs >= 1
          /\ \A c \in Children :
                proc[c] # "none" => <<"stdio_client", c>> \in Attempted

\* The broker has ended by an interrupt with one child Ready and one child
\* failed after its spawn, and both process contexts were left.
C16_Witness ==
    /\ phase = "exited"
    /\ exit_path = "interrupt"
    /\ hs[1] = "Ready" /\ hs[2] = "Failed"
    /\ {<<"stdio_client", 1>>, <<"stdio_client", 2>>} \subseteq Attempted

\* C17 (collect-all shutdown): an error raised while one context is closed
\* does not end the closing: the loop goes on with the contexts that are
\* left, and when it is over close was attempted on every context entered.
C17_CollectAll ==
    (\E n \in 1..Len(closed) : closed[n].outcome = "raised") =>
        /\ (phase = "shutdown" /\ exit_stack # << >>) => ENABLED CloseNext
        /\ phase = "exited" =>
              \A c \in Children : Entered(c) \subseteq Attempted

\* The first context left raised, and the contexts of both children were
\* left all the same, the last one without an error.
C17_Witness ==
    /\ phase = "exited"
    /\ Len(closed) = 4
    /\ closed[1].outcome = "raised"
    /\ closed[4].outcome = "closed"
    /\ closed[1].child # closed[4].child

\* C20 (close is idempotent): every context is left at most once, and all
\* of them in the first run of the close routine: a run after the first
\* closes nothing and so raises nothing.
C20_CloseIdempotent ==
    /\ \A n \in 1..Len(closed) : closed[n].run = 1
    /\ \A m, n \in 1..Len(closed) :
          m # n => <<closed[m].kind, closed[m].child>>
                       # <<closed[n].kind, closed[n].child>>
    /\ (phase = "exited" /\ runs >= 1) => exit_stack = << >>

\* The close routine has been run a second time after contexts of two
\* children were left in the first run.
C20_Witness ==
    /\ phase = "exited"
    /\ runs = 2
    /\ Len(closed) = 4

\* C18 (handshake order): every child completes its steps in the order
\* spawn, session, initialize, list_tools, registration; a session is kept
\* and tools are registered only for a child that acknowledged initialize
\* (and, for the tools, delivered its catalogue); a child that failed at a
\* step did none of the later steps.
C18_HandshakeOrder ==
    /\ \A c \in Children :
          /\ IsPrefix(Completed(c), HandshakeSteps)
          /\ "failed" \in Range(log[c]) =>
                /\ log[c][Len(log[c])] = "failed"
                /\ "register" \notin Range(log[c])
                /\ hs[c] = "Failed"
          /\ hs[c] = "Ready" <=> Completed(c) = HandshakeSteps
          /\ (catalogue[c] # {}) => Completed(c) = HandshakeSteps
    /\ \A n \in DOMAIN sessions :
          "initialize" \in Range(log[sessions[n]])
    /\ \A n \in DOMAIN tool_mapping :
          \E c \in Children :
              /\ Completed(c) = HandshakeSteps
              /\ n \in catalogue[c]
              /\ ServerName(c) = tool_mapping[n]

\* The first child acknowledged initialize and then failed at list_tools;
\* the second went through all steps and its tools are registered.
C18_Witness ==
    /\ log[1] = <<"spawn", "session", "initialize", "failed">>
    /\ log[2] = HandshakeSteps
    /\ catalogue[2] = Tools
    /\ DOMAIN tool_mapping = Tools

\* C19 (directive extraction in the caller): process_query sends exactly
\* one call proxy_tool_call({tool: t, args: a}) when the completion text
\* embeds a directive with action "call_tool" and a non-empty tool t; it
\* sends nothing and returns the completion text when the text is plain,
\* when the embedded JSON is malformed, or when the action is not
\* "call_tool"; it always returns a text and never raises.
C19_DirectiveExtraction ==
    client.pc \in {"awaiting", "returned"} =>
        LET c == client.content
            directive == c.fence /\ c.json = "object" /\ c.action = "call_tool"
        IN /\ (directive /\ c.tool \notin {NoTool, ""}) =>
                 /\ Len(client.sent) = 1
                 /\ client.sent[1].name = "proxy_tool_call"
                 /\ client.sent[1].params.tool = c.tool
                 /\ c.args # NoArgs => client.sent[1].params.args = c.args
           /\ (~c.fence \/ c.json = "malformed" \/ c.action # "call_tool") =>
                 /\ client.sent = << >>
                 /\ client.pc = "returned"
                 /\ client.kind = "content"
           /\ ~client.raised
           /\ client.pc = "returned" => client.text # ""

\* C23 (introspection): the help tool returns the fixed no-tools text
\* exactly when the registry is empty, and otherwise the text that lists
\* exactly the tool names of the registry, the same set of names the
\* unknown-tool failure reports.
C23_Help ==
    help_result # NoMsg =>
        /\ help_result = NoToolsText <=> DOMAIN tool_mapping = {}
        /\ DOMAIN tool_mapping # {} =>
              /\ help_result.text = "available tools: {}"
              /\ help_result.names = DOMAIN tool_mapping
        /\ \A k \in CallIds :
              calls[k].branch = "unknown" =>
                  calls[k].result.names = help_result.names

\* help and an unknown-tool call have both answered on a registry of two
\* names owned by one server.
C23_Witness ==
    /\ help_result.names = Tools
    /\ \E k \in CallIds : calls[k].branch = "unknown"
    /\ \A n \in DOMAIN tool_mapping : tool_mapping[n] = "Server-0"

C21_ReadOnlyInvocation ==
    [][/\ (tool_mapping' # tool_mapping \/ sessions' # sessions) =>
              (phase = "initialize_servers" /\ calls' = calls)
       /\ calls' # calls =>
              (tool_mapping' = tool_mapping /\ sessions' = sessions)]_vars

\* With a non-empty registry, one call has ended by its timeout and another
\* has ended with a failure of the child.
C21_Witness ==
    /\ DOMAIN tool_mapping # {}
    /\ DOMAIN sessions # {}
    /\ calls[1].branch = "timeout"
    /\ calls[2].branch = "failed"

\* C22 (consistent snapshot): a request is only taken after
\* initialize_servers has returned, so every call and every help answer sees
\* the registry and the session table as the finished loop left them.
C22_ConsistentSnapshot ==
    ((\E k \in CallIds : calls[k].st # "idle") \/ help_result # NoMsg) =>
        /\ phase = "serving"
        /\ step = "loop"
        /\ i > Len(SERVERS)
        /\ \A c \in Children :
              \/ log[c] = <<>>
              \/ log[c][Len(log[c])] \in {"skip", "failed", "register"}

\* A call waits for its child and help has answered, after a startup that
\* registered the tools of two children.
C22_Witness ==
    /\ \E k \in CallIds : calls[k].st = "awaiting"
    /\ help_result # NoMsg
    /\ \A c \in Children : hs[c] = "Ready" /\ catalogue[c] # {}

\* C26 (missing tool name): a request without a tool name, or with an empty
\* one, returns the missing-tool-name result in every state of the registry
\* and puts nothing into any child's channel.
C26_MissingToolName ==
    \A k \in CallIds :
        (calls[k].st # "idle" /\ calls[k].tool \in {NoTool, ""}) =>
            /\ calls[k].st = "returned"
            /\ calls[k].branch = "missing_name"
            /\ calls[k].result = MissingNameText
            /\ calls[k].session = 0
            /\ \A c \in Children : SentTo(c, k) = {}

\* Both kinds of request, absent and empty name, were made against a
\* registry that holds tools.
C26_Witness ==
    /\ DOMAIN tool_mapping = Tools
    /\ calls[1].st = "returned" /\ calls[1].tool = NoTool
    /\ calls[2].st = "returned" /\ calls[2].tool = ""

\* C27 (owner always has a session): every server name that is a value of
\* tool_mapping is a key of sessions, and no call ends in the "server session
\* does not exist" branch.
C27_OwnerHasSession ==
    /\ \A n \in DOMAIN tool_mapping : tool_mapping[n] \in DOMAIN sessions
    /\ \A k \in CallIds : calls[k].branch # "no_session"

\* Two servers own tools and a call has been forwarded to a session.
C27_Witness ==
    /\ phase = "serving"
    /\ Cardinality({tool_mapping[n] : n \in DOMAIN tool_mapping}) = 2
    /\ \E k \in CallIds : calls[k].session # 0

\* C24 (spawn error is local): an entry whose script path is empty, or
\* exists under none of the candidate paths, is skipped: no process is
\* started for it, no context entered, no session stored, no tool written,
\* and the loop goes on with the entry after it.
C24_SpawnErrorLocal ==
    \A c \in 1..Len(SERVERS) :
        /\ (i > c /\ IsDict(SERVERS[c]) /\ SERVERS[c].script = "") =>
               hs[c] = "Skipped"
        /\ hs[c] = "Skipped" =>
               /\ log[c] = <<"skip">>
               /\ proc[c] = "none"
               /\ Entered(c) = {}
               /\ \A n \in 1..Len(exit_stack) : exit_stack[n][2] # c
               /\ \A n \in DOMAIN sessions : sessions[n] # c
               /\ catalogue[c] = {}
               /\ i > c
               /\ (InLoop /\ i = c + 1 /\ c < Len(SERVERS)) =>
                      ENABLED (EntryRaises \/ SkipNoScript \/ SkipNotFound
                               \/ BeginTransport)

\* The script of the first entry was not found and the second entry's child
\* completed its handshake and registered tools.
C24_Witness ==
    /\ Len(SERVERS) = 2
    /\ SERVERS[1].script # ""
    /\ hs[1] = "Skipped"
    /\ hs[2] = "Ready"
    /\ catalogue[2] # {}
    /\ DOMAIN tool_mapping = catalogue[2]

\* C28 (no session is lost): once the loop is over, sessions holds an entry
\* of its own for every child that completed initialize, also when two
\* entries carry the same name or an explicit name equals a default name.
C28_NoSessionLost ==
    phase = "serving" =>
        \A c \in 1..Len(SERVERS) :
            "initialize" \in Range(log[c]) =>
                \E n \in DOMAIN sessions : sessions[n] = c

\* C29 (all-or-nothing registration): between the steps of the loop and
\* after it, a child that registered has every tool of its list_tools answer
\* in tool_mapping, a child that did not has written none, and every key of
\* tool_mapping was written by a child that registered.
C29_AllOrNothing ==
    /\ \A c \in Children :
          IF "register" \in Range(log[c])
          THEN catalogue[c] \subseteq DOMAIN tool_mapping
          ELSE catalogue[c] = {}
    /\ \A n \in DOMAIN tool_mapping :
          \E c \in Children : /\ "register" \in Range(log[c])
                               /\ n \in catalogue[c]
                               /\ tool_mapping[n] = ServerName(c)

\* The first child failed at list_tools after its initialize, the second
\* registered both tools of its answer.
C29_Witness ==
    /\ Completed(1) = <<"spawn", "session", "initialize">>
    /\ hs[1] = "Failed"
    /\ "register" \in Range(log[2])
    /\ catalogue[2] = Tools
    /\ DOMAIN tool_mapping = Tools

\* C30 (session table matches handshake outcome): once the loop is over, a
\* child has an entry in sessions if and only if it completed the whole
\* handshake, initialize and list_tools.
C30_SessionsMatchHandshake ==
    phase = "serving" =>
        \A c \in 1..Len(SERVERS) :
            (\E n \in DOMAIN sessions : sessions[n] = c)
                <=> Completed(c) = HandshakeSteps
====
